---- MODULE Spec2Model ----
(***************************************************************************)
(* Model of the go-text-protocol line parser (src/src/parser.rs) and of    *)
(* the custom_command! conversion (src/src/macros.rs).                     *)
(*                                                                         *)
(* A line is a sequence of characters; every character is a one-element    *)
(* token (a string naming it).  The parser's cursor is a BYTE offset, so   *)
(* each character carries its UTF-8 length.                                *)
(***************************************************************************)
EXTENDS Integers, Sequences, FiniteSets, TLC

(***************************************************************************)
(* Characters and the three regex classes of the tokenizer.                *)
(***************************************************************************)

\* LATIN SMALL LETTER E WITH ACUTE: a word character of two bytes
EAcute == "U+00E9"

DigitChars == <<"0", "1", "2", "3", "4", "5", "6", "7", "8", "9">>

AsciiDigit == {DigitChars[i] : i \in 1..10}

\* r"^\d+" on the characters of the model (the lines hold no decimal digit
\* outside ASCII)
DigitClass == AsciiDigit

\* r"^\s+"
SpaceClass == {" ", "\t"}

Letters == {"a", "A", "b", "B", EAcute}

\* r"^[\w\d]+"
WordClass == Letters \cup {"_"} \cup DigitClass

\* UTF-8 length of a character
ByteLen(c) == IF c = EAcute THEN 2 ELSE 1

RECURSIVE Bytes(_)
\* str::len(): the byte length of a string
Bytes(s) == IF s = <<>> THEN 0 ELSE ByteLen(Head(s)) + Bytes(Tail(s))

RECURSIVE Substring(_, _)
\* &self.src[self.pointer..] : the unconsumed suffix from a byte offset
Substring(s, p) ==
    IF p <= 0 \/ s = <<>> THEN s ELSE Substring(Tail(s), p - ByteLen(Head(s)))

RECURSIVE LongestRun(_, _)
\* pattern.find(substring) for an anchored  ^class+  pattern: the longest
\* leading run of characters of the class (<<>> when there is no match)
LongestRun(class, s) ==
    IF s = <<>> \/ Head(s) \notin class THEN <<>>
    ELSE <<Head(s)>> \o LongestRun(class, Tail(s))

(***************************************************************************)
(* u32 arithmetic.  A u32 is kept as two decimal limbs, value =            *)
(* hi * Limb + lo, so that the 32 bit range is exact.                      *)
(***************************************************************************)
Limb == 100000

U32MaxHi == 42949

U32MaxLo == 67295

DigitVal(c) == (CHOOSE i \in 1..10 : DigitChars[i] = c) - 1

FitsU32(hi, lo) == hi < U32MaxHi \/ (hi = U32MaxHi /\ lo <= U32MaxLo)

\* the number of zeros that s starts with
LeadingZeros(s) ==
    CHOOSE n \in 0..Len(s) :
        /\ \A j \in 1..n : s[j] = "0"
        /\ (n = Len(s) \/ s[n + 1] # "0")

\* the i-th decimal place of a digit string, counted from its end (0 beyond
\* its start)
Place(s, i) == IF i <= Len(s) THEN DigitVal(s[Len(s) + 1 - i]) ELSE 0

\* u32::from_str in base ten: Err on the empty string, on a character that
\* is no ASCII digit, and when the number does not fit in 32 bits
U32FromStr(s) ==
    LET sig == Len(s) - LeadingZeros(s)
        lo  == Place(s, 1) + 10 * Place(s, 2) + 100 * Place(s, 3)
                 + 1000 * Place(s, 4) + 10000 * Place(s, 5)
        hi  == Place(s, 6) + 10 * Place(s, 7) + 100 * Place(s, 8)
                 + 1000 * Place(s, 9) + 10000 * Place(s, 10)
    IN  IF s = <<>> \/ (\E i \in 1..Len(s) : s[i] \notin AsciiDigit)
        THEN [ok |-> FALSE, hi |-> 0, lo |-> 0]
        ELSE IF sig > 10 THEN [ok |-> FALSE, hi |-> 0, lo |-> 0]
        ELSE IF FitsU32(hi, lo) THEN [ok |-> TRUE, hi |-> hi, lo |-> lo]
        ELSE [ok |-> FALSE, hi |-> 0, lo |-> 0]

(***************************************************************************)
(* Values                                                                  *)
(***************************************************************************)
NoCount == [some |-> FALSE, hi |-> 0, lo |-> 0]

SomeCount(hi, lo) == [some |-> TRUE, hi |-> hi, lo |-> lo]

RawCommand(c, n, a) == [count |-> c, name |-> n, args |-> a]

NoRaw == RawCommand(NoCount, <<>>, <<>>)

Pending == [tag |-> "Pending", raw |-> NoRaw, kind |-> "", cause |-> ""]

Ok(raw) == [tag |-> "Ok", raw |-> raw, kind |-> "", cause |-> ""]

\* an error_chain Error: its kind and the kind of the error it wraps
Err(kind, cause) == [tag |-> "Err", raw |-> NoRaw, kind |-> kind, cause |-> cause]

Panic == [tag |-> "Panic", raw |-> NoRaw, kind |-> "", cause |-> ""]

(***************************************************************************)
(* Input lines                                                             *)
(***************************************************************************)
MaxSegs == 5

U32MaxDigits == <<"4", "2", "9", "4", "9", "6", "7", "2", "9", "5">>

Segs == { <<"0">>, U32MaxDigits, <<"a">>, <<" ">>, <<"!">>, <<EAcute>> }

RECURSIVE Cat(_)
Cat(k) == IF k = 0 THEN {<<>>}
          ELSE LET prev == Cat(k - 1) IN prev \cup {l \o s : l \in prev, s \in Segs}

Lines == Cat(MaxSegs)

(***************************************************************************)
(* The custom_command! conversion and the targets of the facade            *)
(***************************************************************************)

\* the variants the caller declares, in declaration order: stringify!($command)
Variants == << <<"A", "a">>, <<"A", "A">>, <<"A">>, <<"B", "a">> >>

\* char::to_lowercase on the characters of the model
LowerChar(c) == CASE c = "A" -> "a" [] c = "B" -> "b" [] OTHER -> c

\* mutant: the comparison is case sensitive
ToLowercase_Identity(s) == s

\* str::to_lowercase
ToLowercase(s) == [i \in 1..Len(s) |-> LowerChar(s[i])]

\* a value of a target type: its constructor and its payload
Value(ctor, c, n, a) == [ctor |-> ctor, count |-> c, name |-> n, args |-> a]

\* $name::$command : a payload-free variant
Variant(i) == Value(Variants[i], NoCount, <<>>, <<>>)

\* mutant: the fallback keeps the lowered name
UnrecognisedCommand_Lowered(c, n, a) ==
    Value(<<"UnrecognisedCommand">>, c, ToLowercase(n), a)

UnrecognisedCommand(c, n, a) == Value(<<"UnrecognisedCommand">>, c, n, a)

RECURSIVE FromRawAt(_, _, _)
\* the unrolled  $( if name_as_lower == stringify!($command).to_lowercase() {..} )*
FromRawAt(raw, name_as_lower, i) ==
    IF i > Len(Variants)
    THEN UnrecognisedCommand(raw.count, raw.name, raw.args)
    ELSE IF name_as_lower = ToLowercase(Variants[i]) THEN Variant(i)
    ELSE FromRawAt(raw, name_as_lower, i + 1)

\* impl From<RawCommand> for $name
FromRaw(raw) == FromRawAt(raw, ToLowercase(raw.name), 1)

Targets == {"RawCommand", "QuickCmd", "MyCommand"}

\* raw.into() for the target type C
Into(C, raw) ==
    CASE C = "RawCommand" -> Value(<<"RawCommand">>, raw.count, raw.name, raw.args)
      [] C = "QuickCmd"   -> Value(<<"QuickCmd">>, raw.count, raw.name, raw.args)
      [] C = "MyCommand"  -> FromRaw(raw)

NoValue == Value(<<>>, NoCount, <<>>, <<>>)

NoOut == [tag |-> "Pending", target |-> "", value |-> NoValue, kind |-> "", cause |-> ""]

(***************************************************************************)
(* The tokenizer primitives: each returns the cursor it leaves and what it *)
(* gives back to its caller.                                               *)
(***************************************************************************)

\* Parser::read_number: the cursor moves before the digits are converted
read_number(s, p) ==
    LET run == LongestRun(DigitClass, Substring(s, p))
        num == U32FromStr(run)
    IN  IF run = <<>>
        THEN [pointer |-> p, matched |-> FALSE, panicked |-> FALSE, num |-> NoCount]
        ELSE IF num.ok
        THEN [pointer |-> p + Bytes(run), matched |-> TRUE, panicked |-> FALSE,
              num |-> SomeCount(num.hi, num.lo)]
        ELSE [pointer |-> p + Bytes(run), matched |-> TRUE, panicked |-> TRUE,
              num |-> NoCount]

\* mutant: the pattern is ^\s, one whitespace character
skip_whitespace_One(s, p) ==
    LET sub == Substring(s, p)
        num_bytes_to_skip == IF sub # <<>> /\ Head(sub) \in SpaceClass
                             THEN ByteLen(Head(sub)) ELSE 0
    IN  [pointer |-> p + num_bytes_to_skip, ok |-> num_bytes_to_skip # 0]

\* Parser::skip_whitespace: Err(NoWhitespace) when nothing was skipped
skip_whitespace(s, p) ==
    LET num_bytes_to_skip == Bytes(LongestRun(SpaceClass, Substring(s, p)))
    IN  [pointer |-> p + num_bytes_to_skip, ok |-> num_bytes_to_skip # 0]

\* mutant: the pattern is ^[a-zA-Z]+, letters without digits
lex_identifier_LettersOnly(s, p) ==
    LET token == LongestRun(Letters, Substring(s, p))
    IN  IF token = <<>>
        THEN [pointer |-> p, matched |-> FALSE, token |-> <<>>]
        ELSE [pointer |-> p + Bytes(token), matched |-> TRUE, token |-> token]

\* mutant: the cursor advances by the characters of the token, not its bytes
lex_identifier_Chars(s, p) ==
    LET token == LongestRun(WordClass, Substring(s, p))
    IN  IF token = <<>>
        THEN [pointer |-> p, matched |-> FALSE, token |-> <<>>]
        ELSE [pointer |-> p + Len(token), matched |-> TRUE, token |-> token]

\* mutant: the pattern is ^[\w\d]*, which matches the empty string
lex_identifier_Star(s, p) ==
    LET token == LongestRun(WordClass, Substring(s, p))
    IN  [pointer |-> p + Bytes(token), matched |-> TRUE, token |-> token]

\* Parser::lex_identifier
lex_identifier(s, p) ==
    LET token == LongestRun(WordClass, Substring(s, p))
    IN  IF token = <<>>
        THEN [pointer |-> p, matched |-> FALSE, token |-> <<>>]
        ELSE [pointer |-> p + Bytes(token), matched |-> TRUE, token |-> token]

\* identifiers.split_off(1)
SplitOff1(ids) == SubSeq(ids, 2, Len(ids))

\* mutant: the name is not split off the arguments
Assemble_KeepsName(c, identifiers) ==
    IF Len(identifiers) < 1
    THEN Err("NoCommand", "")
    ELSE Ok(RawCommand(c, identifiers[1], identifiers))

\* mutant: the test is identifiers.len() <= 1
Assemble_NeedsTwo(c, identifiers) ==
    IF Len(identifiers) <= 1
    THEN Err("NoCommand", "")
    ELSE Ok(RawCommand(c, identifiers[1], SplitOff1(identifiers)))

\* the tail of Parser::parse, once lex has returned Ok((count, identifiers))
Assemble(c, identifiers) ==
    IF Len(identifiers) < 1
    THEN Err("NoCommand", "")
    ELSE Ok(RawCommand(c, identifiers[1], SplitOff1(identifiers)))

\* mutant: the error of lex is passed on as it is
ChainErr_Bare(kind) == Err(kind, "")

\* .chain_err(|| "Failed to parse the line into tokens"): the new error has
\* kind Msg(..) and keeps the error of lex as its cause
ChainErr(kind) == Err("Msg", kind)

(***************************************************************************)
(* RawCommand values a caller may hold (the fields are public), and their  *)
(* textual form                                                            *)
(***************************************************************************)
MaxRaw == 5

FieldSep == "|"

RawAlphabet == {"7", "a", "A", "!"}

RECURSIVE Strings(_, _)
\* the strings over an alphabet of at most k characters
Strings(alphabet, k) ==
    IF k = 0 THEN {<<>>}
    ELSE LET prev == Strings(alphabet, k - 1)
         IN  prev \cup {<<c>> \o s : c \in alphabet, s \in prev}

RECURSIVE Fields(_)
\* the fields of a string, cut at every FieldSep
Fields(s) ==
    IF FieldSep \notin {s[i] : i \in 1..Len(s)} THEN <<s>>
    ELSE LET k == CHOOSE i \in 1..Len(s) :
                     s[i] = FieldSep /\ \A j \in 1..(i - 1) : s[j] # FieldSep
         IN  <<SubSeq(s, 1, k - 1)>> \o Fields(SubSeq(s, k + 1, Len(s)))

Counts == {NoCount, SomeCount(0, 0), SomeCount(0, 7), SomeCount(U32MaxHi, U32MaxLo)}

RawCommands ==
    { RawCommand(c, Head(Fields(s)), Tail(Fields(s))) :
        c \in Counts, s \in Strings(RawAlphabet \cup {FieldSep}, MaxRaw) }

RECURSIVE NatDigits(_)
NatDigits(k) ==
    IF k < 10 THEN <<DigitChars[k + 1]>>
    ELSE NatDigits(k \div 10) \o <<DigitChars[(k % 10) + 1]>>

RECURSIVE ZeroPad(_, _)
ZeroPad(s, width) == IF Len(s) >= width THEN s ELSE ZeroPad(<<"0">> \o s, width)

\* the decimal text of a u32 (Display): no sign, no leading zeros
Decimal(c) ==
    IF c.hi = 0 THEN NatDigits(c.lo)
    ELSE NatDigits(c.hi) \o ZeroPad(NatDigits(c.lo), 5)

RECURSIVE Join(_, _)
Join(strs, sep) ==
    IF strs = <<>> THEN <<>>
    ELSE IF Len(strs) = 1 THEN strs[1]
    ELSE strs[1] \o sep \o Join(Tail(strs), sep)

\* count + " " + name + " " + join(args, " "), without the count and its
\* space when the count is absent
Serialize(r) ==
    (IF r.count.some THEN Decimal(r.count) \o <<" ">> ELSE <<>>)
        \o r.name \o <<" ">> \o Join(r.args, <<" ">>)

(***************************************************************************)
(* State                                                                   *)
(***************************************************************************)
VARIABLES line, src, pointer, pc, count, tokens, result, out, iters, last, orig

vars == <<line, src, pointer, pc, count, tokens, result, out, iters, last, orig>>

\* Parser::new(line): the parser owns a copy of the caller's line
New(l) ==
    /\ line = l
    /\ src = l
    /\ pointer = 0
    /\ pc = "read_number"
    /\ count = NoCount
    /\ tokens = <<>>
    /\ result = Pending
    /\ out = NoOut
    /\ iters = 0
    /\ last = [op |-> "new", from |-> 0]

Init == orig = NoRaw /\ \E l \in Lines : New(l)

\* lex: if let Some(num) = self.read_number()
ReadNumber ==
    /\ pc = "read_number"
    /\ LET r == read_number(src, pointer)
       IN  /\ pointer' = r.pointer
           /\ count' = r.num
           /\ result' = IF r.panicked THEN Panic ELSE result
           /\ pc' = IF r.panicked THEN "panicked"
                    ELSE IF r.matched THEN "skip_whitespace" ELSE "lex_identifier"
    /\ last' = [op |-> "read_number", from |-> pointer]
    /\ UNCHANGED <<line, src, tokens, out, iters, orig>>

\* lex: self.skip_whitespace()?  after a count; the error leaves lex and
\* parse wraps it with chain_err
SkipWhitespace ==
    /\ pc = "skip_whitespace"
    /\ LET r == skip_whitespace(src, pointer)
       IN  /\ pointer' = r.pointer
           /\ result' = IF r.ok THEN result ELSE ChainErr("NoWhitespace")
           /\ pc' = IF r.ok THEN "lex_identifier" ELSE "returned"
    /\ last' = [op |-> "skip_whitespace", from |-> pointer]
    /\ UNCHANGED <<line, src, count, tokens, out, iters, orig>>

\* lex: while let Some(next_token) = self.lex_identifier() { tokens.push(..)
\* when nothing matches the loop ends, lex returns and parse assembles
LexIdentifier ==
    /\ pc = "lex_identifier"
    /\ LET r == lex_identifier(src, pointer)
       IN  /\ pointer' = r.pointer
           /\ tokens' = IF r.matched THEN Append(tokens, r.token) ELSE tokens
           /\ result' = IF r.matched THEN result ELSE Assemble(count, tokens)
           /\ pc' = IF r.matched THEN "skip_separator" ELSE "returned"
    /\ iters' = iters + 1
    /\ last' = [op |-> "lex_identifier", from |-> pointer]
    /\ UNCHANGED <<line, src, count, out, orig>>

\* lex: let _ = self.skip_whitespace();  in the loop body
SkipSeparator ==
    /\ pc = "skip_separator"
    /\ pointer' = skip_whitespace(src, pointer).pointer
    /\ pc' = "lex_identifier"
    /\ last' = [op |-> "skip_separator", from |-> pointer]
    /\ UNCHANGED <<line, src, count, tokens, result, out, iters, orig>>

\* parse<C>: parser.parse().map(|c| c.into())
Facade ==
    /\ pc = "returned"
    /\ \E C \in Targets :
          out' = IF result.tag = "Ok"
                 THEN [tag |-> "Ok", target |-> C, value |-> Into(C, result.raw),
                       kind |-> "", cause |-> ""]
                 ELSE [tag |-> "Err", target |-> C, value |-> NoValue,
                       kind |-> result.kind, cause |-> result.cause]
    /\ pc' = "done"
    /\ UNCHANGED <<line, src, pointer, count, tokens, result, iters, last, orig>>

Next == ReadNumber \/ SkipWhitespace \/ LexIdentifier \/ SkipSeparator \/ Facade

Spec == Init /\ [][Next]_vars

MaxFairSegs == 3

InitFair == orig = NoRaw /\ \E l \in Cat(MaxFairSegs) : New(l)

\* the sequential program always takes its next step
FairSpec == InitFair /\ [][Next]_vars /\ WF_vars(Next)

(***************************************************************************)
(* A caller that holds a RawCommand: it converts it with From, or writes   *)
(* it out and parses the text again.                                       *)
(***************************************************************************)
InitRaw == orig \in RawCommands /\ New(Serialize(orig))

\* MyCommand::from(raw)
FromDirect ==
    /\ pc = "read_number"
    /\ out' = [tag |-> "Ok", target |-> "MyCommand", value |-> FromRaw(orig),
               kind |-> "", cause |-> ""]
    /\ pc' = "converted"
    /\ UNCHANGED <<line, src, pointer, count, tokens, result, iters, last, orig>>

NextRaw == Next \/ FromDirect

SpecRaw == InitRaw /\ [][NextRaw]_vars

(***************************************************************************)
(* Vocabulary of the properties.  These definitions describe a line        *)
(* directly (by quantifying over its positions), not by running the        *)
(* tokenizer.                                                              *)
(***************************************************************************)

\* Parser::parse has ended: it returned, or it unwound with a panic
Finished == pc \in {"returned", "done", "panicked"}

AllIn(s, class) == \A i \in 1..Len(s) : s[i] \in class

\* the length of the longest run of characters of the class that starts at
\* index i of s
RunLen(class, s, i) ==
    LET outside == {j \in i..Len(s) : s[j] \notin class}
    IN  IF outside = {} THEN Len(s) + 1 - i
        ELSE (CHOOSE j \in outside : \A m \in outside : j <= m) - i

RunAt(class, s, i) == SubSeq(s, i, i + RunLen(class, s, i) - 1)

\* the number of characters of s that lie before the byte offset p
CharsBefore(s, p) == CHOOSE k \in 0..Len(s) : Bytes(SubSeq(s, 1, k)) = p

RECURSIVE WsSplit(_)
\* the whitespace split of a line: its maximal runs of non-whitespace
WsSplit(s) ==
    IF s = <<>> THEN <<>>
    ELSE IF Head(s) \in SpaceClass THEN WsSplit(Tail(s))
    ELSE LET n == CHOOSE m \in 1..Len(s) :
                     /\ \A j \in 1..m : s[j] \notin SpaceClass
                     /\ (m = Len(s) \/ s[m + 1] \in SpaceClass)
         IN  <<SubSeq(s, 1, n)>> \o WsSplit(SubSeq(s, n + 1, Len(s)))

\* tokens separated by whitespace: no whitespace before the first token or
\* after the last one
Separated(s) == s # <<>> /\ s[1] \notin SpaceClass /\ s[Len(s)] \notin SpaceClass

RECURSIVE StripZeros(_)
StripZeros(s) == IF Len(s) > 1 /\ Head(s) = "0" THEN StripZeros(Tail(s)) ELSE s

\* the number a digit run denotes, as decimal text without leading zeros
Canon(run) == StripZeros(run)

\* the number a digit run denotes is at most 4294967295
DenotesU32(run) ==
    LET c == Canon(run)
    IN  \/ Len(c) < Len(U32MaxDigits)
        \/ /\ Len(c) = Len(U32MaxDigits)
           /\ \/ c = U32MaxDigits
              \/ \E i \in 1..Len(c) :
                    /\ \A j \in 1..(i - 1) : c[j] = U32MaxDigits[j]
                    /\ DigitVal(c[i]) < DigitVal(U32MaxDigits[i])

\* the leading digit run of the line
LeadRun == RunAt(DigitClass, src, 1)

\* a digit run, whitespace, then word tokens separated by whitespace
CountedForm(s) ==
    LET ch == WsSplit(s)
    IN  /\ Separated(s)
        /\ Len(ch) >= 2
        /\ AllIn(ch[1], DigitClass)
        /\ \A i \in 2..Len(ch) : AllIn(ch[i], WordClass)

\* r is the command of a line of the counted form
IsCountedCommand(r, s) ==
    LET ch == WsSplit(s)
    IN  /\ r.count.some
        /\ Decimal(r.count) = Canon(ch[1])
        /\ r.name = ch[2]
        /\ r.args = SubSeq(ch, 3, Len(ch))

IdentityTargets == {"RawCommand", "QuickCmd"}

\* Parser::parse and the facade with an identity-like target both give the
\* command of the counted line
ParsesCounted ==
    /\ Finished => result.tag = "Ok" /\ IsCountedCommand(result.raw, src)
    /\ (pc = "done" /\ out.target \in IdentityTargets) =>
          /\ out.tag = "Ok"
          /\ IsCountedCommand(out.value, src)

\* C1 as stated: every line made of a digit run, whitespace and word tokens
\* parses to count = the value of the run, name = the first token, args =
\* the other tokens in order
C1_AnyDigitRun == CountedForm(src) => ParsesCounted

\* C1 restricted to the digit runs u32::from_str converts, those whose value
\* is at most 4294967295
C1_CountNameArgs == (CountedForm(src) /\ DenotesU32(LeadRun)) => ParsesCounted

C1_Witness ==
    /\ pc = "done"
    /\ out.target = "QuickCmd"
    /\ CountedForm(src)
    /\ out.value.count = SomeCount(U32MaxHi, U32MaxLo)
    /\ out.value.name = <<"a">>
    /\ out.value.args = << <<EAcute>> >>

\* the line starts with a digit run that whitespace does not follow
DigitsThenNoSpace(s) ==
    LET k == RunLen(DigitClass, s, 1)
    IN  k > 0 /\ (k = Len(s) \/ s[k + 1] \notin SpaceClass)

\* C2 as stated: such a line gives no RawCommand, and the kind of the error
\* the caller receives is NoWhitespace
C2_KindNoWhitespace ==
    DigitsThenNoSpace(src) =>
        /\ result.tag # "Ok" /\ out.tag # "Ok"
        /\ pc \in {"returned", "done"} =>
              result.tag = "Err" /\ result.kind = "NoWhitespace"
        /\ pc = "done" => out.tag = "Err" /\ out.kind = "NoWhitespace"

\* C2, amended: such a line never gives a RawCommand.  When the value of the
\* run is at most 4294967295 the caller receives an error of kind Msg whose
\* cause is NoWhitespace; otherwise read_number panics
C2_ChainedNoWhitespace ==
    DigitsThenNoSpace(src) =>
        /\ result.tag # "Ok" /\ out.tag # "Ok"
        /\ Finished =>
              IF DenotesU32(LeadRun)
              THEN pc # "panicked" /\ result = Err("Msg", "NoWhitespace")
              ELSE pc = "panicked" /\ result = Panic
        /\ pc = "done" =>
              out.tag = "Err" /\ out.kind = "Msg" /\ out.cause = "NoWhitespace"

C2_Witness ==
    /\ pc = "done"
    /\ src = <<"0", "a">>
    /\ out.tag = "Err"
    /\ out.cause = "NoWhitespace"

\* the line holds no identifier where the lexer looks for the first one
NoIdentifierLine(s) ==
    \/ s = <<>>
    \/ s[1] \notin (DigitClass \cup WordClass)
    \/ LET k == RunLen(DigitClass, s, 1)
           m == RunLen(SpaceClass, s, k + 1)
       IN  k > 0 /\ m > 0 /\ (k + m = Len(s) \/ s[k + m + 1] \notin WordClass)

LexedWithoutError == pc \in {"returned", "done"} /\ result.cause # "NoWhitespace"

\* C3: when lexing ends without NoWhitespace and no identifier was
\* collected, parse fails with kind NoCommand; with an identifier collected
\* it never does
C3_NoCommand ==
    LexedWithoutError =>
        /\ (tokens = <<>>) <=> (result.tag = "Err" /\ result.kind = "NoCommand")
        /\ (tokens = <<>>) <=> NoIdentifierLine(src)
        /\ tokens # <<>> => result.tag = "Ok"
        /\ pc = "done" => (out.kind = "NoCommand" <=> tokens = <<>>)

C3_Witness ==
    /\ pc = "done"
    /\ src = <<"0", " ", "!">>
    /\ out.tag = "Err"
    /\ out.kind = "NoCommand"

\* word tokens separated by whitespace, the first character of the line a
\* word character that is not a digit; whitespace may follow the last token
PlainForm(s) ==
    /\ s # <<>>
    /\ s[1] \in WordClass \ DigitClass
    /\ \A i \in 1..Len(WsSplit(s)) : AllIn(WsSplit(s)[i], WordClass)

\* C7: a line of word tokens separated by whitespace that does not start
\* with a digit parses to count None, name = the first token of the
\* whitespace split, args = the other tokens in order
C7_PlainTokens ==
    PlainForm(src) =>
        /\ pc # "panicked"
        /\ Finished =>
              result = Ok(RawCommand(NoCount, Head(WsSplit(src)), Tail(WsSplit(src))))

C7_Witness ==
    /\ pc = "returned"
    /\ src = <<"a", " ", " ", EAcute, "0">>
    /\ result.raw.name = <<"a">>
    /\ result.raw.args = << <<EAcute, "0">> >>

\* C8: a leading digit run whose value exceeds 4294967295 gives the caller
\* an error, and a count that is returned is the exact value of the run
C8_OverflowIsError ==
    /\ (Finished /\ LeadRun # <<>> /\ ~DenotesU32(LeadRun)) => result.tag = "Err"
    /\ (result.tag = "Ok" /\ result.raw.count.some) =>
          /\ Decimal(result.raw.count) = Canon(LeadRun)
          /\ FitsU32(result.raw.count.hi, result.raw.count.lo)

\* the longest run of characters of the class that starts at the byte
\* offset p of s
LongestAt(class, s, p) == RunAt(class, s, CharsBefore(s, p) + 1)

\* what the three primitives must do when called with k characters of s
\* consumed
PrimitivesAfter(s, k) ==
    LET p == Bytes(SubSeq(s, 1, k))
        d == RunAt(DigitClass, s, k + 1)
        w == RunAt(SpaceClass, s, k + 1)
        t == RunAt(WordClass, s, k + 1)
        rn == read_number(s, p)
        sw == skip_whitespace(s, p)
        li == lex_identifier(s, p)
    IN  /\ rn.pointer = p + Bytes(d) /\ rn.matched = (d # <<>>)
        /\ sw.pointer = p + Bytes(w) /\ sw.ok = (w # <<>>)
        /\ li.pointer = p + Bytes(t) /\ li.matched = (t # <<>>) /\ li.token = t

ClassOf(op) ==
    CASE op = "read_number" -> DigitClass
      [] op = "lex_identifier" -> WordClass
      [] OTHER -> SpaceClass

\* last.from is the cursor before the latest primitive ran, line the string
\* the parser was made from.  The primitives are functions of the line and
\* the cursor, and the line is fixed: they are compared at every position
\* once, when the parser is new
CursorInv ==
    /\ last.op = "new" => \A k \in 0..Len(src) : PrimitivesAfter(src, k)
    /\ 0 <= pointer /\ pointer <= Bytes(src)
    /\ last.from <= pointer
    /\ src = line
    /\ last.op # "new" =>
          pointer = last.from + Bytes(LongestAt(ClassOf(last.op), src, last.from))
    /\ (last.op = "skip_whitespace" /\ pointer = last.from) =>
          result.tag = "Err" /\ result.cause = "NoWhitespace"

\* C9: each primitive consumes exactly the longest leading run of its class
\* (in bytes) or nothing; the cursor stays within the line, never moves
\* back, and the line is never changed
C9_Cursor == CursorInv

C9_Witness ==
    /\ src = <<"0", " ", "a", EAcute, "!">>
    /\ last = [op |-> "lex_identifier", from |-> 2]
    /\ pointer = 5

\* C10: parsing ends; an iteration of the identifier loop advances the
\* cursor or ends the loop; after a missing separator the next iteration
\* ends the loop; there are at most byte length + 1 iterations
C10_Terminates ==
    /\ <>(pc \in {"done", "panicked"})
    /\ [](iters <= Bytes(src) + 1)
    /\ [][pc = "lex_identifier" => (pointer' > pointer \/ pc' = "returned")]_vars
    /\ [][(pc = "lex_identifier" /\ last.op = "skip_separator" /\ pointer = last.from)
             => pc' = "returned"]_vars

C10_Witness ==
    /\ pc = "done"
    /\ src = <<"a", EAcute, "!">>
    /\ iters = 2
    /\ last = [op |-> "lex_identifier", from |-> 3]

(***************************************************************************)
(* Properties of the conversion and of the round trip (SpecRaw)            *)
(***************************************************************************)
CasePairs == {<<"a", "A">>, <<"b", "B">>}

SameIgnoringCase(x, y) == x = y \/ <<x, y>> \in CasePairs \/ <<y, x>> \in CasePairs

EqualIgnoringCase(a, b) ==
    Len(a) = Len(b) /\ \A i \in 1..Len(a) : SameIgnoringCase(a[i], b[i])

Matching(r) == {i \in 1..Len(Variants) : EqualIgnoringCase(r.name, Variants[i])}

\* a conversion into the generated type has run: directly, or in the facade
Converted ==
    \/ pc = "converted"
    \/ pc = "done" /\ out.target = "MyCommand" /\ result.tag = "Ok"

Converting == IF pc = "converted" THEN orig ELSE result.raw

\* C4: a name equal, ignoring case, to a declared variant name converts to
\* the first such variant, which carries nothing, whatever count and args
C4_CaseInsensitiveVariant ==
    (Converted /\ Matching(Converting) # {}) =>
        LET first == CHOOSE i \in Matching(Converting) :
                        \A j \in Matching(Converting) : i <= j
        IN  /\ out.tag = "Ok"
            /\ out.value = [ctor |-> Variants[first], count |-> NoCount,
                            name |-> <<>>, args |-> <<>>]

C4_Witness ==
    /\ pc = "converted"
    /\ orig.name = <<"a", "A">>
    /\ orig.count = SomeCount(0, 7)
    /\ orig.args = << <<"!">> >>
    /\ out.value.ctor = <<"A", "a">>

\* C5: a name that matches no declared variant converts, without failing,
\* to UnrecognisedCommand carrying count, name and args unchanged
C5_FallbackKeepsRaw ==
    (Converted /\ Matching(Converting) = {}) =>
        /\ out.tag = "Ok"
        /\ out.value = [ctor |-> <<"UnrecognisedCommand">>,
                        count |-> Converting.count,
                        name |-> Converting.name,
                        args |-> Converting.args]

C5_Witness ==
    /\ pc = "done"
    /\ orig = RawCommand(SomeCount(0, 7), <<"A", "A", "a">>, << <<"A">> >>)
    /\ out.value.ctor = <<"UnrecognisedCommand">>
    /\ out.value.name = <<"A", "A", "a">>

\* name and args are each a non-empty run of word characters
WordFields(r) ==
    /\ r.name # <<>> /\ AllIn(r.name, WordClass)
    /\ \A i \in 1..Len(r.args) : r.args[i] # <<>> /\ AllIn(r.args[i], WordClass)

\* C6 as stated: parsing the text of any RawCommand with word fields gives
\* the RawCommand back
C6_AnyWordFields == (Finished /\ WordFields(orig)) => result = Ok(orig)

\* C6, amended: the same, provided that a RawCommand without a count has a
\* name that does not start with a digit
C6_RoundTrip ==
    (Finished /\ WordFields(orig) /\ (orig.count.some \/ Head(orig.name) \notin DigitClass))
        => result = Ok(orig)

C6_Witness ==
    /\ pc = "returned"
    /\ orig = RawCommand(SomeCount(U32MaxHi, U32MaxLo), <<"7">>, << <<"a">>, <<"A">> >>)
    /\ result = Ok(orig)
====
